---- MODULE Spec2Model ----
(***************************************************************************)
(* Position control and order execution of the mean-reversion bot.         *)
(*                                                                         *)
(*   Spec        bot_mean_reversion_production.py: run_bot and everything   *)
(*               it calls, against a model of the exchange                  *)
(*   SpecBasic   bot_mean_reversion.py: the variant without retries         *)
(*   SpecSizing  calculate_position_size as a function of its inputs        *)
(*                                                                         *)
(* Units.  Quantities are whole coins, prices and balances whole USDT.     *)
(* Fractions of the configuration are kept exact: RISK_PER_TRADE and       *)
(* STOP_LOSS_PCT in basis points (1/10000), the z-score thresholds in       *)
(* tenths.  A quotient the code computes in floating point is kept as a     *)
(* rational [n, d] until the code rounds it; a z-score is kept as the       *)
(* deviation and the variance it is the quotient of, and compared exactly.  *)
(***************************************************************************)
EXTENDS Integers, Sequences, FiniteSets, TLC

\* ------------------------------------------------------------------------
\* Configuration (defaults of the .env lookups)
\* ------------------------------------------------------------------------
Z_SCORE_WINDOW == 20
ENTRY_THRESHOLD == 20      \* 2.0, in tenths
EXIT_THRESHOLD == 5        \* 0.5, in tenths
RISK_PER_TRADE == 100      \* 0.01, in basis points
STOP_LOSS_PCT == 200       \* 0.02, in basis points
MAX_RETRIES == 3
RETRY_DELAY == 2           \* seconds

\* ------------------------------------------------------------------------
\* Bounds of the model
\* ------------------------------------------------------------------------
MaxCycles == 2             \* cycles of the main loop that are explored

\* ------------------------------------------------------------------------
\* Inputs the exchange can deliver
\* ------------------------------------------------------------------------
\* exchange.market(symbol): limits and precision.  max = 0 stands for None.
MainMarket == [step |-> 1, min |-> 1, max |-> 4, minCost |-> 100, tick |-> 1]

Markets ==
  { MainMarket,
    [step |-> 1, min |-> 1, max |-> 0, minCost |-> 0,   tick |-> 1],
    [step |-> 2, min |-> 2, max |-> 8, minCost |-> 100, tick |-> 1],
    [step |-> 2, min |-> 2, max |-> 5, minCost |-> 0,   tick |-> 1],
    [step |-> 5, min |-> 5, max |-> 0, minCost |-> 600, tick |-> 1] }

Balances == {0, 150, 400, 1000}
SizingBalances == {0, 40, 150, 400, 700, 1000, 1100, 1400, 2000}

\* fetch_balance either raises (ok = FALSE) or reports the free USDT
BalanceOutcomes ==
  {[ok |-> FALSE, free |-> 0]} \cup {[ok |-> TRUE, free |-> b] : b \in Balances}

\* close prices of a frame: a of them at last + d1, then last + d2 up to
\* the final close, last
Series(last, d1, a, d2) ==
  [i \in 1..Z_SCORE_WINDOW |->
     IF i <= a THEN last + d1 ELSE IF i < Z_SCORE_WINDOW THEN last + d2 ELSE last]

\* the frames fetch_data can deliver (their close column): z-scores near
\* 2.3, 1.5, 0.3, -0.3 and -2.3 (at last closes of 100, 50 and 60, the
\* last with a stop price between two ticks), of exactly 2.0 and 0.5 (mean
\* 96 and 99, std 2), constant prices, fewer closes than the window, a constant
\* trailing window after a different close, no rows
Frames ==
  { Series(100, 0 - 6, 5, 0 - 3), Series(50, 0 - 6, 5, 0 - 3),
    Series(100, 6, 5, 3), Series(60, 6, 5, 3),
    Series(100, 0 - 6, 12, 0 - 1),
    Series(100, 0 - 6, 2, 0), Series(100, 6, 2, 0),
    <<93, 93, 93, 99, 99, 99, 95, 95, 95, 95, 95, 97, 96, 96, 96, 96, 96, 96, 96, 100>>,
    <<97, 97, 97, 97, 97, 97, 97, 98, 98, 102, 102, 102, 102, 102, 99, 99, 99, 99, 99, 100>>,
    Series(100, 0, 0, 0), Series(50, 0, 0, 0),
    <<90, 90, 90, 90, 90, 90, 90, 90, 90, 100>>,
    <<90>> \o Series(100, 0, 0, 0),
    << >> }

\* what one submission of an order can end in: accepted, a transport
\* failure, or a rejection by the exchange (precision, margin)
Outcomes == {"ok", "transient", "rejected"}

\* what requests.post in LineNotifier.send_message can do: answer 200,
\* answer another status, raise
LineOutcomes == {"sent", "status", "raised"}

\* ------------------------------------------------------------------------
\* LineNotifier
\* ------------------------------------------------------------------------
\* send_message: True on status 200, False otherwise; an exception of
\* requests.post is caught inside and gives False
send_message(line) == line = "sent"

\* variant with a plausible slip, used to test the notification property:
\* the exception of requests.post leaves send_message and ends the caller
\* in its `except Exception` branch, which returns on_error
Notified_raising(value, line, on_error) ==
  IF line = "raised" THEN on_error ELSE value

\* the value a function returns after one of the notify_* calls: the
\* result of send_message is discarded
Notified(value, line, on_error) == value

\* ------------------------------------------------------------------------
\* Rationals
\* ------------------------------------------------------------------------
\* kept in lowest terms
RECURSIVE GCD(_, _)
GCD(a, b) == IF b = 0 THEN a ELSE GCD(b, a % b)
Rat(n, d) == LET g == GCD(n, d) IN IF g = 0 THEN [n |-> n, d |-> d]
                                   ELSE [n |-> n \div g, d |-> d \div g]
RatDiv(q, n, d) == Rat(q.n * d, q.d * n)          \* q / (n/d)
RatMul(q, n, d) == Rat(q.n * n, q.d * d)          \* q * (n/d)
RatLeqInt(k, q) == k * q.d <= q.n                 \* k <= q, q.d > 0
RatEq(p, q) == p.n * q.d = q.n * p.d

\* ------------------------------------------------------------------------
\* calculate_z_score: the last row of the z_score column
\* ------------------------------------------------------------------------
RECURSIVE Sum(_, _)
Sum(s, k) == IF Len(s) = 0 THEN 0
             ELSE (IF k = 2 THEN Head(s) * Head(s) ELSE Head(s)) + Sum(Tail(s), k)

\* the last n closes
Trailing(closes, n) == SubSeq(closes, Len(closes) - n + 1, Len(closes))

\* z = (close - mean) / std over n closes, std with ddof = 1.  With
\* dev = n * close - sum and var = n * sum of squares - sum^2,
\* z = dev * sqrt(n - 1) / sqrt(n * var).  defined = FALSE is NaN.
ZOver(w) ==
  LET n == Len(w)
      dev == n * w[n] - Sum(w, 1)
      var == n * Sum(w, 2) - Sum(w, 1) * Sum(w, 1)
  IN  [defined |-> var # 0, dev |-> dev, var |-> var, n |-> n]

NaN == [defined |-> FALSE, dev |-> 0, var |-> 0, n |-> 0]

\* variants with a plausible slip, used to test the signal properties:
\* rolling(..., min_periods=1), and a z-score of 0 where the std is 0
calculate_z_score_min_periods(closes, window) ==
  IF Len(closes) = 0 THEN NaN
  ELSE IF Len(closes) < window THEN ZOver(closes)
  ELSE ZOver(Trailing(closes, window))

calculate_z_score_fillna(closes, window) ==
  IF Len(closes) < window THEN NaN
  ELSE [ZOver(Trailing(closes, window)) EXCEPT !.defined = TRUE]

\* rolling(window).mean() and .std() are NaN on fewer than window rows
calculate_z_score(closes, window) ==
  IF Len(closes) < window THEN NaN
  ELSE ZOver(Trailing(closes, window))

\* ------------------------------------------------------------------------
\* Signal comparisons: every comparison with NaN is false.  t in tenths.
\* ------------------------------------------------------------------------
\* the squares of both sides of  10 * dev * sqrt(n - 1)  ?  t * sqrt(n * var)
ZLeft(z) == (10 * z.dev) * (10 * z.dev) * (z.n - 1)
ZRight(z, t) == t * t * z.n * z.var

Gt(z, t) ==
  /\ z.defined
  /\ IF z.dev >= 0
     THEN (IF t >= 0 THEN ZLeft(z) > ZRight(z, t) ELSE TRUE)
     ELSE (IF t >= 0 THEN FALSE ELSE ZLeft(z) < ZRight(z, t))

Lt(z, t) ==
  /\ z.defined
  /\ IF z.dev >= 0
     THEN (IF t >= 0 THEN ZLeft(z) < ZRight(z, t) ELSE FALSE)
     ELSE (IF t >= 0 THEN TRUE ELSE ZLeft(z) > ZRight(z, t))

\* ------------------------------------------------------------------------
\* calculate_position_size
\* ------------------------------------------------------------------------
\* amount_coin before exchange.amount_to_precision
RawQuantity(usdt_balance, current_price) ==
  LET risk_amount == RatMul(Rat(usdt_balance, 1), RISK_PER_TRADE, 10000)
      position_size_usdt == RatDiv(risk_amount, STOP_LOSS_PCT, 10000)
  IN  RatDiv(position_size_usdt, current_price, 1)

\* exchange.amount_to_precision: truncation to a multiple of the lot step
amount_to_precision(q, step) == ((q.n \div (q.d * step)) * step)

\* variant with a plausible slip, used to test the rejection property:
\* no minimum-notional check (as in bot_mean_reversion.py)
calculate_position_size_no_min_notional(bal, current_price, m) ==
  IF ~bal.ok
  THEN [amount |-> 0, balance |-> 0]
  ELSE IF bal.free <= 0
  THEN [amount |-> 0, balance |-> bal.free]
  ELSE
    LET amount_coin == amount_to_precision(RawQuantity(bal.free, current_price), m.step)
        clamped == IF m.max # 0 /\ amount_coin > m.max THEN m.max ELSE amount_coin
    IN  IF amount_coin < m.min
        THEN [amount |-> 0, balance |-> bal.free]
        ELSE [amount |-> clamped, balance |-> bal.free]

calculate_position_size(bal, current_price, m) ==
  IF ~bal.ok
  THEN [amount |-> 0, balance |-> 0]
  ELSE IF bal.free <= 0
  THEN [amount |-> 0, balance |-> bal.free]
  ELSE
    LET amount_coin == amount_to_precision(RawQuantity(bal.free, current_price), m.step)
        clamped == IF m.max # 0 /\ amount_coin > m.max THEN m.max ELSE amount_coin
    IN  IF amount_coin < m.min
        THEN [amount |-> 0, balance |-> bal.free]
        ELSE IF clamped * current_price < m.minCost
        THEN [amount |-> 0, balance |-> bal.free]
        ELSE [amount |-> clamped, balance |-> bal.free]

\* ------------------------------------------------------------------------
\* execute_order_with_retry, one pass of its loop
\* ------------------------------------------------------------------------
\* A call in progress: the order it submits (op, side, amount), the loop
\* index, the calls made, the sleeps taken, the failures seen, and the
\* value returned ("running" until the call returns).
NewCall(op, side, amount) ==
  [op |-> op, side |-> side, amount |-> amount, attempt |-> 0, calls |-> 0,
   fails |-> 0, waits |-> << >>, lastErr |-> "none", result |-> "running"]

NoCall == NewCall("none", "none", 0)

\* variants of the loop with a plausible slip, used to test the retry
\* properties: a constant delay (as in fetch_data), and a sleep after the
\* final failure
execute_order_with_retry_fixed_delay(r, o) ==
  IF o = "ok"
  THEN [r EXCEPT !.calls = @ + 1, !.result = "ok"]
  ELSE
    IF r.attempt < MAX_RETRIES - 1
    THEN [r EXCEPT !.calls = @ + 1, !.fails = @ + 1, !.lastErr = o,
                   !.waits = Append(@, RETRY_DELAY), !.attempt = @ + 1]
    ELSE [r EXCEPT !.calls = @ + 1, !.fails = @ + 1, !.lastErr = o,
                   !.attempt = @ + 1, !.result = "None"]

execute_order_with_retry_sleep_at_end(r, o) ==
  IF o = "ok"
  THEN [r EXCEPT !.calls = @ + 1, !.result = "ok"]
  ELSE
    LET wait_time == RETRY_DELAY * (2 ^ r.attempt)
    IN  [r EXCEPT !.calls = @ + 1, !.fails = @ + 1, !.lastErr = o,
                  !.waits = Append(@, wait_time), !.attempt = @ + 1,
                  !.result = IF r.attempt < MAX_RETRIES - 1 THEN "running" ELSE "None"]

execute_order_with_retry(r, o) ==
  IF o = "ok"
  THEN [r EXCEPT !.calls = @ + 1, !.result = "ok"]
  ELSE
    LET wait_time == RETRY_DELAY * (2 ^ r.attempt)
    IN  IF r.attempt < MAX_RETRIES - 1
        THEN [r EXCEPT !.calls = @ + 1, !.fails = @ + 1, !.lastErr = o,
                       !.waits = Append(@, wait_time), !.attempt = @ + 1]
        ELSE [r EXCEPT !.calls = @ + 1, !.fails = @ + 1, !.lastErr = o,
                       !.attempt = @ + 1, !.result = "None"]

\* variant with a plausible slip, used to test the bound on submissions:
\* the loop of the stop order runs once more than MAX_RETRIES
stop_loss_attempt_once_more(r, o) ==
  IF o = "ok"
  THEN [r EXCEPT !.calls = @ + 1, !.result = "ok"]
  ELSE
    LET wait_time == RETRY_DELAY * (2 ^ r.attempt)
    IN  IF r.attempt < MAX_RETRIES
        THEN [r EXCEPT !.calls = @ + 1, !.fails = @ + 1, !.lastErr = o,
                       !.waits = Append(@, wait_time), !.attempt = @ + 1]
        ELSE [r EXCEPT !.calls = @ + 1, !.fails = @ + 1, !.lastErr = o,
                       !.attempt = @ + 1, !.result = "exhausted"]

\* the retry loop of set_stop_loss_with_safety; it falls out of the loop
\* ("exhausted") instead of returning
stop_loss_attempt(r, o) ==
  IF o = "ok"
  THEN [r EXCEPT !.calls = @ + 1, !.result = "ok"]
  ELSE
    LET wait_time == RETRY_DELAY * (2 ^ r.attempt)
    IN  IF r.attempt < MAX_RETRIES - 1
        THEN [r EXCEPT !.calls = @ + 1, !.fails = @ + 1, !.lastErr = o,
                       !.waits = Append(@, wait_time), !.attempt = @ + 1]
        ELSE [r EXCEPT !.calls = @ + 1, !.fails = @ + 1, !.lastErr = o,
                       !.attempt = @ + 1, !.result = "exhausted"]

\* ------------------------------------------------------------------------
\* Orders
\* ------------------------------------------------------------------------
Signed(side, amount) == IF side = "buy" THEN amount ELSE 0 - amount
Opposite(side) == IF side = "buy" THEN "sell" ELSE "buy"
EntrySide(signal) == IF signal = "BUY" THEN "buy" ELSE "sell"

\* execute_trade: the side it passes to set_stop_loss_with_safety
StopSide(signal) == IF signal = "BUY" THEN "sell" ELSE "buy"

\* set_stop_loss_with_safety: close_side = 'sell' if side == 'buy' else 'buy',
\* where side is the side of the stop order it was given
close_side(side) == IF side = "buy" THEN "sell" ELSE "buy"
Abs(x) == IF x < 0 THEN 0 - x ELSE x

\* variant with a plausible slip, used to test the stop order property:
\* the stop price cut off at the tick instead of rounded
stop_loss_price_truncated(signal, current_price, tick) ==
  LET raw == IF signal = "BUY"
             THEN Rat(current_price * (10000 - STOP_LOSS_PCT), 10000)
             ELSE Rat(current_price * (10000 + STOP_LOSS_PCT), 10000)
  IN  (raw.n \div (raw.d * tick)) * tick

\* execute_trade: current_price * (1 -/+ STOP_LOSS_PCT), then
\* exchange.price_to_precision (round half up to the price tick)
stop_loss_price(signal, current_price, tick) ==
  LET raw == IF signal = "BUY"
             THEN Rat(current_price * (10000 - STOP_LOSS_PCT), 10000)
             ELSE Rat(current_price * (10000 + STOP_LOSS_PCT), 10000)
  IN  ((2 * raw.n + raw.d * tick) \div (2 * raw.d * tick)) * tick

\* the exchange fills a market order: position and average entry price
Fill(pos, entry, side, amount, price) ==
  LET p == pos + Signed(side, amount)
  IN  [pos |-> p,
       entry |-> IF p = 0 THEN 0
                 ELSE IF pos = 0 \/ (pos > 0) # (p > 0) THEN price
                 ELSE entry]

RemoveAt(s, i) == SubSeq(s, 1, i - 1) \o SubSeq(s, i + 1, Len(s))


\* ------------------------------------------------------------------------
\* State
\* ------------------------------------------------------------------------
VARIABLES
  pc,               \* where run_bot stands
  in_position,      \* run_bot's record of its position ...
  position_type,    \*   "LONG", "SHORT" or "None"
  position_amount,
  entry_price,
  exPos,            \* exchange: contracts held for SYMBOL (signed)
  exEntry,          \* exchange: entry price of that position
  exStops,          \* exchange: open STOP_MARKET orders, oldest first
  cyc,              \* locals of the cycle in progress (kept until the next)
  retry,            \* the latest call of execute_order_with_retry
  sl,               \* the retry loop of set_stop_loss_with_safety
  cycles,           \* cycles started
  returned,         \* history: <<what execute_trade did, what it returned>>
  sz,               \* SpecSizing: one call of calculate_position_size
  synced            \* history: fetch_current_position read the exchange

vars == <<pc, in_position, position_type, position_amount, entry_price,
          exPos, exEntry, exStops, cyc, retry, sl, cycles, returned, sz, synced>>

controller == <<in_position, position_type, position_amount, entry_price>>
exchange == <<exPos, exEntry, exStops>>

\* locals of a cycle, with what the cycle was given and what it did:
\* bars is the number of closes in the frame, before the controller's
\* record when the cycle began, ops the kinds of order submitted so far,
\* bal what fetch_balance did, line what the last notification's HTTP call did,
\* quiet the number of cycles just before this one in which the controller
\* was flat and the z-score was a number not above ENTRY_THRESHOLD
NoController == <<FALSE, "None", 0, 0>>

NoCycle ==
  [kind |-> "none", bars |-> 0, before |-> NoController, ops |-> {}, quiet |-> 0,
   z |-> NaN, price |-> 0, signal |-> "none", amount |-> 0,
   balance |-> 0, entryOk |-> FALSE, sl_success |-> FALSE,
   emergency |-> "none", emCalls |-> 0, order |-> "unset", closed |-> "unset",
   fill |-> [filled |-> 0, average |-> 0], stop_price |-> 0,
   cancel |-> "unset", cancelled |-> 0, interrupted |-> "no",
   bal |-> [ok |-> FALSE, free |-> 0], line |-> "none"]

NoSizing == [bal |-> [ok |-> FALSE, free |-> 0], price |-> 0, market |-> MainMarket,
             done |-> FALSE, amount |-> 0, balance |-> 0]

\* what the exchange may hold when the bot starts: nothing, or a position
\* a previous run opened and protected
StartPositions ==
  { [pos |-> 0, entry |-> 0, stops |-> << >>],
    [pos |-> 2, entry |-> 100,
     stops |-> << [side |-> "sell", amount |-> 2, stopPrice |-> 98] >>],
    [pos |-> 0 - 4, entry |-> 50,
     stops |-> << [side |-> "buy", amount |-> 4, stopPrice |-> 51] >>] }

Init ==
  /\ pc = "start"
  /\ in_position = FALSE
  /\ position_type = "None"
  /\ position_amount = 0
  /\ entry_price = 0
  /\ \E s \in StartPositions :
       /\ exPos = s.pos
       /\ exEntry = s.entry
       /\ exStops = s.stops
  /\ cyc = NoCycle
  /\ retry = NoCall
  /\ sl = NoCall
  /\ cycles = 0
  /\ returned = {}
  /\ sz = NoSizing
  /\ synced = FALSE

\* ------------------------------------------------------------------------
\* fetch_current_position, and run_bot's adoption of its result
\* ------------------------------------------------------------------------
PositionState(fetched, contracts, entryPrice) ==
  IF fetched /\ contracts # 0
  THEN [in_position |-> TRUE,
        position_type |-> IF contracts > 0 THEN "LONG" ELSE "SHORT",
        position_amount |-> Abs(contracts),
        entry_price |-> entryPrice]
  ELSE [in_position |-> FALSE, position_type |-> "None",
        position_amount |-> 0, entry_price |-> 0]

fetch_current_position ==
  /\ pc = "start"
  /\ \E fetched \in BOOLEAN :
       LET position_state == PositionState(fetched, exPos, exEntry)
       IN  /\ in_position' = position_state.in_position
           /\ position_type' = position_state.position_type
           /\ position_amount' = position_state.position_amount
           /\ entry_price' = position_state.entry_price
           /\ synced' = fetched
  /\ pc' = "wait"
  /\ UNCHANGED <<exchange, cyc, retry, sl, cycles, returned, sz>>

\* ------------------------------------------------------------------------
\* run_bot: one cycle
\* ------------------------------------------------------------------------
\* wait_for_candle_close, fetch_data, calculate_z_score.  fetch_data gives
\* None after MAX_RETRIES failures; an empty frame makes iloc[-1] raise,
\* which the loop's except Exception swallows.  The locals of the calls
\* of the cycle before are gone.
DataOutcomes ==
  {[df |-> "None", closes |-> << >>]} \cup {[df |-> "ok", closes |-> f] : f \in Frames}

\* the cycle's locals once the frame is there: df['z_score'].iloc[-1] and
\* df['close'].iloc[-1]
NewCycle(d, ctl, last) ==
  LET quiet == IF /\ last.kind = "hold" /\ ~last.before[1]
                  /\ last.z.defined /\ ~Gt(last.z, ENTRY_THRESHOLD)
               THEN last.quiet + 1 ELSE 0
  IN  IF d.df = "None"
      THEN [NoCycle EXCEPT !.kind = "nodata", !.before = ctl, !.quiet = quiet]
      ELSE IF Len(d.closes) = 0
      THEN [NoCycle EXCEPT !.kind = "error", !.before = ctl, !.quiet = quiet]
      ELSE [NoCycle EXCEPT !.bars = Len(d.closes), !.before = ctl, !.quiet = quiet,
                           !.z = calculate_z_score(d.closes, Z_SCORE_WINDOW),
                           !.price = d.closes[Len(d.closes)]]

\* variant with a plausible slip, used to test the main loop property: a
\* failed fetch_data leaves the loop (`break` for `continue`)
run_bot_fetch_break ==
  /\ pc = "wait"
  /\ cycles < MaxCycles
  /\ cycles' = cycles + 1
  /\ \E d \in DataOutcomes :
       /\ cyc' = NewCycle(d, controller, cyc)
       /\ pc' = IF cyc'.kind = "none" THEN "decide"
                ELSE IF cyc'.kind = "nodata" THEN "exit" ELSE "wait"
  /\ retry' = NoCall
  /\ sl' = NoCall
  /\ UNCHANGED <<controller, exchange, returned, sz, synced>>

\* one pass of `while True` up to the decision: wait_for_candle_close,
\* fetch_data (None: sleep and continue), calculate_z_score and the last
\* row (an empty frame raises and is caught by `except Exception`)
run_bot_fetch ==
  /\ pc = "wait"
  /\ cycles < MaxCycles
  /\ cycles' = cycles + 1
  /\ \E d \in DataOutcomes :
       /\ cyc' = NewCycle(d, controller, cyc)
       /\ pc' = IF cyc'.kind = "none" THEN "decide" ELSE "wait"
  /\ retry' = NoCall
  /\ sl' = NoCall
  /\ UNCHANGED <<controller, exchange, returned, sz, synced>>

\* variant with a plausible slip, used to test the decision property: the
\* exit of a SHORT with the sign of the LONG exit
Decision_short_exit_sign(inpos, ptype, z) ==
  IF ~inpos
  THEN IF Gt(z, ENTRY_THRESHOLD) THEN "SELL"
       ELSE IF Lt(z, 0 - ENTRY_THRESHOLD) THEN "BUY"
       ELSE "hold"
  ELSE IF ptype = "SHORT" /\ Lt(z, 0 - EXIT_THRESHOLD) THEN "close"
       ELSE IF ptype = "LONG" /\ Gt(z, 0 - EXIT_THRESHOLD) THEN "close"
       ELSE "hold"

\* variant with a plausible slip, used to test the property of single
\* transitions: an entry signal against the open position opens the
\* opposite position
Decision_reversing(inpos, ptype, z) ==
  IF ~inpos \/ (ptype = "LONG" /\ Gt(z, ENTRY_THRESHOLD))
            \/ (ptype = "SHORT" /\ Lt(z, 0 - ENTRY_THRESHOLD))
  THEN IF Gt(z, ENTRY_THRESHOLD) THEN "SELL"
       ELSE IF Lt(z, 0 - ENTRY_THRESHOLD) THEN "BUY"
       ELSE "hold"
  ELSE IF ptype = "SHORT" /\ Lt(z, EXIT_THRESHOLD) THEN "close"
       ELSE IF ptype = "LONG" /\ Gt(z, 0 - EXIT_THRESHOLD) THEN "close"
       ELSE "hold"

\* the decision logic, up to the call of execute_trade or close_position
Decision(inpos, ptype, z) ==
  IF ~inpos
  THEN IF Gt(z, ENTRY_THRESHOLD) THEN "SELL"
       ELSE IF Lt(z, 0 - ENTRY_THRESHOLD) THEN "BUY"
       ELSE "hold"
  ELSE IF ptype = "SHORT" /\ Lt(z, EXIT_THRESHOLD) THEN "close"
       ELSE IF ptype = "LONG" /\ Gt(z, 0 - EXIT_THRESHOLD) THEN "close"
       ELSE "hold"

run_bot_decide ==
  /\ pc = "decide"
  /\ LET d == Decision(in_position, position_type, cyc.z)
     IN  CASE d = "hold" ->
                /\ cyc' = [cyc EXCEPT !.kind = "hold"]
                /\ pc' = "wait"
                /\ UNCHANGED retry
           [] d = "close" ->
                /\ cyc' = [cyc EXCEPT !.kind = "close"]
                /\ pc' = "cancel"
                /\ UNCHANGED retry
           [] OTHER ->
                \E bal \in BalanceOutcomes, line \in LineOutcomes :
                  LET sized == calculate_position_size(bal, cyc.price, MainMarket)
                      size == IF sized.amount = 0
                              THEN Notified(sized, line, [amount |-> 0, balance |-> 0])
                              ELSE sized
                  IN  /\ cyc' = [cyc EXCEPT !.kind = "open", !.signal = d,
                                            !.amount = size.amount,
                                            !.balance = size.balance,
                                            !.bal = bal,
                                            !.line = IF sized.amount = 0 THEN line ELSE "none"]
                      /\ IF size.amount > 0
                         THEN /\ pc' = "entry"
                              /\ retry' = NewCall("entry", EntrySide(d), size.amount)
                         ELSE /\ pc' = "wait"
                              /\ UNCHANGED retry
  /\ UNCHANGED <<controller, exchange, sl, cycles, returned, sz, synced>>

\* ------------------------------------------------------------------------
\* execute_trade
\* ------------------------------------------------------------------------
\* the price a market order is filled at: the last close, or a tick away
FillPrices(current_price) == {current_price, current_price + MainMarket.tick}

\* the market entry order, one submission; the order it returns carries
\* the filled amount and the average fill price
execute_trade_entry ==
  /\ pc = "entry"
  /\ \E o \in Outcomes, average \in FillPrices(cyc.price), line \in LineOutcomes :
       LET r == execute_order_with_retry(retry, o)
           f == Fill(exPos, exEntry, retry.side, retry.amount, average)
       IN  /\ retry' = r
           /\ CASE r.result = "ok" ->
                     /\ exPos' = f.pos
                     /\ exEntry' = f.entry
                     /\ cyc' = [cyc EXCEPT !.ops = @ \cup {"entry"}, !.entryOk = TRUE,
                                            !.fill = [filled |-> retry.amount,
                                                      average |-> average]]
                     /\ sl' = NewCall("stop", StopSide(cyc.signal), cyc.amount)
                     /\ pc' = "stop"
                [] r.result = "None" ->
                     /\ cyc' = [cyc EXCEPT !.ops = @ \cup {"entry"}, !.line = line,
                                            !.order = Notified("None", line, "None")]
                     /\ pc' = "ret_trade"
                     /\ UNCHANGED <<exPos, exEntry, sl>>
                [] OTHER ->
                     /\ cyc' = [cyc EXCEPT !.ops = @ \cup {"entry"}]
                     /\ UNCHANGED <<exPos, exEntry, sl, pc>>
  /\ UNCHANGED <<controller, exStops, cycles, returned, sz, synced>>

\* set_stop_loss_with_safety: one submission of the STOP_MARKET order
\* (the locals of the entry call are gone)
set_stop_loss_with_safety_stop ==
  /\ pc = "stop"
  /\ \E o \in Outcomes, line \in LineOutcomes :
       LET r == stop_loss_attempt(sl, o)
           stop_price == stop_loss_price(cyc.signal, cyc.price, MainMarket.tick)
       IN  /\ sl' = r
           /\ CASE r.result = "ok" ->
                     /\ exStops' = Append(exStops, [side |-> sl.side, amount |-> sl.amount,
                                                    stopPrice |-> stop_price])
                     /\ cyc' = [cyc EXCEPT !.ops = @ \cup {"stop"}, !.line = line,
                                            !.sl_success = TRUE,
                                            !.order = Notified("order", line, "None"),
                                            !.stop_price = stop_price]
                     /\ pc' = "ret_trade"
                     /\ retry' = NoCall
                [] r.result = "exhausted" ->
                     /\ retry' = NewCall("emergency", close_side(sl.side), sl.amount)
                     /\ cyc' = [cyc EXCEPT !.ops = @ \cup {"stop"}, !.emCalls = @ + 1]
                     /\ pc' = "emergency"
                     /\ UNCHANGED exStops
                [] OTHER ->
                     /\ cyc' = [cyc EXCEPT !.ops = @ \cup {"stop"}]
                     /\ retry' = NoCall
                     /\ UNCHANGED <<exStops, pc>>
  /\ UNCHANGED <<controller, exPos, exEntry, cycles, returned, sz, synced>>

\* set_stop_loss_with_safety: the emergency close, one submission
set_stop_loss_with_safety_emergency ==
  /\ pc = "emergency"
  /\ \E o \in Outcomes :
       LET r == execute_order_with_retry(retry, o)
           f == Fill(exPos, exEntry, retry.side, retry.amount, cyc.price)
       IN  /\ retry' = r
           /\ CASE r.result = "ok" ->
                     /\ exPos' = f.pos
                     /\ exEntry' = f.entry
                     /\ cyc' = [cyc EXCEPT !.ops = @ \cup {"emergency"},
                                            !.emergency = "ok", !.order = "None"]
                     /\ pc' = "ret_trade"
                [] r.result = "None" ->
                     /\ cyc' = [cyc EXCEPT !.ops = @ \cup {"emergency"},
                                            !.emergency = "failed", !.order = "None"]
                     /\ pc' = "ret_trade"
                     /\ UNCHANGED <<exPos, exEntry>>
                [] OTHER ->
                     /\ cyc' = [cyc EXCEPT !.ops = @ \cup {"emergency"}]
                     /\ UNCHANGED <<exPos, exEntry, pc>>
  /\ UNCHANGED <<controller, exStops, sl, cycles, returned, sz, synced>>

\* what happened inside execute_trade, for the history
TradeKind(c) ==
  IF ~c.entryOk THEN "entry_failed"
  ELSE IF c.sl_success THEN "opened"
  ELSE IF c.emergency = "ok" THEN "emergency_ok"
  ELSE "critical"

\* run_bot after execute_trade returned: `if order:`
run_bot_after_trade ==
  /\ pc = "ret_trade"
  /\ IF cyc.order = "order"
     THEN /\ in_position' = TRUE
          /\ position_type' = IF cyc.signal = "BUY" THEN "LONG" ELSE "SHORT"
          /\ position_amount' = cyc.amount
          /\ entry_price' = cyc.price
     ELSE UNCHANGED controller
  /\ returned' = returned \cup {<<TradeKind(cyc), cyc.order>>}
  /\ pc' = "wait"
  /\ retry' = NoCall
  /\ sl' = NoCall
  /\ UNCHANGED <<exchange, cyc, cycles, sz, synced>>

\* ------------------------------------------------------------------------
\* close_position
\* ------------------------------------------------------------------------
\* variant with a plausible slip, used to test the closing property: the
\* closing order on the side that opened the position
close_position_cancel_same_side ==
  /\ pc = "cancel"
  /\ \E k \in 0..Len(exStops) :
       /\ exStops' = SubSeq(exStops, k + 1, Len(exStops))
       /\ cyc' = [cyc EXCEPT !.cancel = IF k < Len(exStops) THEN "cancel_failed" ELSE "done",
                              !.cancelled = k]
  /\ retry' = NewCall("close", IF position_type = "SHORT" THEN "sell" ELSE "buy",
                      position_amount)
  /\ pc' = "close"
  /\ UNCHANGED <<controller, exPos, exEntry, sl, cycles, returned, sz, synced>>

\* how the inner try of close_position ended: the listing raised, cancel
\* number k+1 raised, or every stop order was cancelled
CancelOutcome(listed, k, n) ==
  IF ~listed THEN "list_failed" ELSE IF k < n THEN "cancel_failed" ELSE "done"

\* variant with a plausible slip, used to test the ordering property: a
\* failure of the listing or of a cancellation ends close_position
close_position_cancel_blocking ==
  /\ pc = "cancel"
  /\ \E listed \in BOOLEAN, k \in 0..Len(exStops) :
       /\ ~listed => k = 0
       /\ exStops' = SubSeq(exStops, k + 1, Len(exStops))
       /\ cyc' = [cyc EXCEPT !.cancel = CancelOutcome(listed, k, Len(exStops)),
                              !.cancelled = k,
                              !.closed = IF listed /\ k = Len(exStops) THEN @ ELSE "False"]
       /\ pc' = IF listed /\ k = Len(exStops) THEN "close" ELSE "ret_close"
  /\ retry' = NewCall("close", IF position_type = "SHORT" THEN "buy" ELSE "sell",
                      position_amount)
  /\ UNCHANGED <<controller, exPos, exEntry, sl, cycles, returned, sz, synced>>

\* fetch_open_orders and the cancel loop: the first k stop orders are
\* cancelled; then, whatever happened, the closing order is prepared
close_position_cancel ==
  /\ pc = "cancel"
  /\ \E listed \in BOOLEAN, k \in 0..Len(exStops) :
       /\ ~listed => k = 0
       /\ exStops' = SubSeq(exStops, k + 1, Len(exStops))
       /\ cyc' = [cyc EXCEPT !.cancel = CancelOutcome(listed, k, Len(exStops)),
                              !.cancelled = k]
  /\ retry' = NewCall("close", IF position_type = "SHORT" THEN "buy" ELSE "sell",
                      position_amount)
  /\ pc' = "close"
  /\ UNCHANGED <<controller, exPos, exEntry, sl, cycles, returned, sz, synced>>

\* the closing market order, one submission
close_position_order ==
  /\ pc = "close"
  /\ \E o \in Outcomes, line \in LineOutcomes :
       LET r == execute_order_with_retry(retry, o)
           f == Fill(exPos, exEntry, retry.side, retry.amount, cyc.price)
       IN  /\ retry' = r
           /\ CASE r.result = "ok" ->
                     /\ exPos' = f.pos
                     /\ exEntry' = f.entry
                     /\ cyc' = [cyc EXCEPT !.ops = @ \cup {"close"}, !.line = line,
                                            !.closed = Notified("True", line, "False")]
                     /\ pc' = "ret_close"
                [] r.result = "None" ->
                     /\ cyc' = [cyc EXCEPT !.ops = @ \cup {"close"}, !.line = line,
                                            !.closed = Notified("False", line, "False")]
                     /\ pc' = "ret_close"
                     /\ UNCHANGED <<exPos, exEntry>>
                [] OTHER ->
                     /\ cyc' = [cyc EXCEPT !.ops = @ \cup {"close"}]
                     /\ UNCHANGED <<exPos, exEntry, pc>>
  /\ UNCHANGED <<controller, exStops, sl, cycles, returned, sz, synced>>

\* variant with a plausible slip, used to test the failure property: the
\* result of close_position is not tested
run_bot_after_close_unchecked ==
  /\ pc = "ret_close"
  /\ in_position' = FALSE
  /\ position_type' = "None"
  /\ position_amount' = 0
  /\ UNCHANGED entry_price
  /\ pc' = "wait"
  /\ retry' = NoCall
  /\ UNCHANGED <<exchange, cyc, sl, cycles, returned, sz, synced>>

\* variant with a plausible slip, used to test the consistency of the
\* record: the amount is not reset after a close
run_bot_after_close_keeps_amount ==
  /\ pc = "ret_close"
  /\ IF cyc.closed = "True"
     THEN /\ in_position' = FALSE
          /\ position_type' = "None"
          /\ UNCHANGED <<position_amount, entry_price>>
     ELSE UNCHANGED controller
  /\ pc' = "wait"
  /\ retry' = NoCall
  /\ UNCHANGED <<exchange, cyc, sl, cycles, returned, sz, synced>>

\* run_bot after close_position returned
run_bot_after_close ==
  /\ pc = "ret_close"
  /\ IF cyc.closed = "True"
     THEN /\ in_position' = FALSE
          /\ position_type' = "None"
          /\ position_amount' = 0
          /\ UNCHANGED entry_price
     ELSE UNCHANGED controller
  /\ pc' = "wait"
  /\ retry' = NoCall
  /\ UNCHANGED <<exchange, cyc, sl, cycles, returned, sz, synced>>

\* ------------------------------------------------------------------------
\* The exchange: the market reaches a stop price and the stop order fills
\* ------------------------------------------------------------------------
\* (not placed between a call's return and run_bot's use of the result,
\* which no market move separates; before the start the outcome is one of
\* the StartPositions; what the market does after the process ended is not
\* followed)
StopTriggered ==
  /\ pc \notin {"start", "ret_trade", "ret_close", "b_ret", "exit"}
  /\ \E i \in 1..Len(exStops) :
       LET o == exStops[i]
           f == Fill(exPos, exEntry, o.side, o.amount, o.stopPrice)
       IN  /\ exPos' = f.pos
           /\ exEntry' = f.entry
           /\ exStops' = RemoveAt(exStops, i)
  /\ UNCHANGED <<pc, controller, cyc, retry, sl, cycles, returned, sz, synced>>

Next ==
  \/ fetch_current_position
  \/ run_bot_fetch
  \/ run_bot_decide
  \/ execute_trade_entry
  \/ set_stop_loss_with_safety_stop
  \/ set_stop_loss_with_safety_emergency
  \/ run_bot_after_trade
  \/ close_position_cancel
  \/ close_position_order
  \/ run_bot_after_close
  \/ StopTriggered

Spec == Init /\ [][Next]_vars

\* ------------------------------------------------------------------------
\* SpecInterrupt: run_bot with the operator's Ctrl-C
\* ------------------------------------------------------------------------
\* KeyboardInterrupt is raised where the program stands.  It is not an
\* Exception, so no `except Exception` on the way catches it (the retry
\* loops, set_stop_loss_with_safety, execute_trade, close_position); in the
\* loop run_bot's `except KeyboardInterrupt` calls sys.exit(), before the
\* loop the process ends with the traceback.
KeyboardInterrupt ==
  /\ pc \in {"start", "wait", "decide", "entry", "stop", "emergency", "ret_trade",
              "cancel", "close", "ret_close"}
  /\ cyc' = [cyc EXCEPT !.interrupted = pc]
  /\ pc' = "exit"
  /\ UNCHANGED <<controller, exchange, retry, sl, cycles, returned, sz, synced>>

NextInterrupt ==
  \/ Next
  \/ KeyboardInterrupt

SpecInterrupt == Init /\ [][NextInterrupt]_vars


\* ------------------------------------------------------------------------
\* SpecSizing: calculate_position_size on its own
\* ------------------------------------------------------------------------
SizingPrices == {50, 100, 130}

SizingInputs ==
  {[bal |-> b, price |-> p, market |-> m, done |-> FALSE, amount |-> 0, balance |-> 0] :
     b \in {[ok |-> FALSE, free |-> 0]} \cup {[ok |-> TRUE, free |-> x] : x \in SizingBalances},
     p \in SizingPrices, m \in Markets}

InitSizing ==
  /\ pc = "sizing"
  /\ in_position = FALSE
  /\ position_type = "None"
  /\ position_amount = 0
  /\ entry_price = 0
  /\ exPos = 0
  /\ exEntry = 0
  /\ exStops = << >>
  /\ cyc = NoCycle
  /\ retry = NoCall
  /\ sl = NoCall
  /\ cycles = 0
  /\ returned = {}
  /\ sz \in SizingInputs
  /\ synced = FALSE

sizing_call ==
  /\ pc = "sizing"
  /\ ~sz.done
  /\ LET r == calculate_position_size(sz.bal, sz.price, sz.market)
     IN  sz' = [sz EXCEPT !.done = TRUE, !.amount = r.amount, !.balance = r.balance]
  /\ UNCHANGED <<pc, controller, exchange, cyc, retry, sl, cycles, returned, synced>>

NextSizing == sizing_call

SpecSizing == InitSizing /\ [][NextSizing]_vars

\* ------------------------------------------------------------------------
\* SpecBasic: bot_mean_reversion.py (no retries, no startup re-sync)
\* ------------------------------------------------------------------------
basic_calculate_position_size(bal, current_price, m) ==
  IF ~bal.ok \/ bal.free <= 0
  THEN 0
  ELSE
    LET amount_coin == amount_to_precision(RawQuantity(bal.free, current_price), m.step)
    IN  IF amount_coin < m.min THEN 0 ELSE amount_coin

InitBasic ==
  /\ pc = "b_wait"
  /\ in_position = FALSE
  /\ position_type = "None"
  /\ position_amount = 0
  /\ entry_price = 0
  /\ \E s \in StartPositions :
       /\ exPos = s.pos
       /\ exEntry = s.entry
       /\ exStops = s.stops
  /\ cyc = NoCycle
  /\ retry = NoCall
  /\ sl = NoCall
  /\ cycles = 0
  /\ returned = {}
  /\ sz = NoSizing
  /\ synced = FALSE

basic_run_bot_fetch ==
  /\ pc = "b_wait"
  /\ cycles < MaxCycles
  /\ cycles' = cycles + 1
  /\ \E d \in DataOutcomes :
       /\ cyc' = NewCycle(d, controller, cyc)
       /\ pc' = IF cyc'.kind = "none" THEN "b_decide" ELSE "b_wait"
  /\ UNCHANGED <<controller, exchange, retry, sl, returned, sz, synced>>

basic_run_bot_decide ==
  /\ pc = "b_decide"
  /\ LET d == Decision(in_position, position_type, cyc.z)
     IN  CASE d = "hold" ->
                /\ cyc' = [cyc EXCEPT !.kind = "hold"]
                /\ pc' = "b_wait"
           [] d = "close" ->
                /\ cyc' = [cyc EXCEPT !.kind = "close"]
                /\ pc' = "b_cancel"
           [] OTHER ->
                \E bal \in BalanceOutcomes :
                  LET amount == basic_calculate_position_size(bal, cyc.price, MainMarket)
                  IN  /\ cyc' = [cyc EXCEPT !.kind = "open", !.signal = d,
                                            !.amount = amount]
                      /\ pc' = IF amount > 0 THEN "b_entry" ELSE "b_wait"
  /\ UNCHANGED <<controller, exchange, retry, sl, cycles, returned, sz, synced>>

\* execute_trade("BUY" | "SELL"): the market order
basic_execute_trade_entry ==
  /\ pc = "b_entry"
  /\ \E ok \in BOOLEAN :
       LET f == Fill(exPos, exEntry, EntrySide(cyc.signal), cyc.amount, cyc.price)
       IN  IF ok
           THEN /\ exPos' = f.pos
                /\ exEntry' = f.entry
                /\ cyc' = [cyc EXCEPT !.entryOk = TRUE]
                /\ pc' = "b_stop"
           ELSE /\ cyc' = [cyc EXCEPT !.order = "None"]
                /\ pc' = "b_ret"
                /\ UNCHANGED <<exPos, exEntry>>
  /\ UNCHANGED <<controller, exStops, retry, sl, cycles, returned, sz, synced>>

\* the STOP_MARKET order
basic_execute_trade_stop ==
  /\ pc = "b_stop"
  /\ \E ok \in BOOLEAN :
       IF ok
       THEN /\ exStops' = Append(exStops,
                            [side |-> StopSide(cyc.signal), amount |-> cyc.amount,
                             stopPrice |-> stop_loss_price(cyc.signal, cyc.price, MainMarket.tick)])
            /\ cyc' = [cyc EXCEPT !.sl_success = TRUE, !.order = "order"]
            /\ pc' = "b_ret"
       ELSE /\ cyc' = [cyc EXCEPT !.emCalls = @ + 1]
            /\ pc' = "b_emergency"
            /\ UNCHANGED exStops
  /\ UNCHANGED <<controller, exPos, exEntry, retry, sl, cycles, returned, sz, synced>>

\* the emergency close; when it raises too, control falls through to
\* `return order`
basic_execute_trade_emergency ==
  /\ pc = "b_emergency"
  /\ \E ok \in BOOLEAN :
       LET f == Fill(exPos, exEntry, Opposite(EntrySide(cyc.signal)), cyc.amount, cyc.price)
       IN  IF ok
           THEN /\ exPos' = f.pos
                /\ exEntry' = f.entry
                /\ cyc' = [cyc EXCEPT !.emergency = "ok", !.order = "None"]
           ELSE /\ cyc' = [cyc EXCEPT !.emergency = "failed", !.order = "order"]
                /\ UNCHANGED <<exPos, exEntry>>
  /\ pc' = "b_ret"
  /\ UNCHANGED <<controller, exStops, retry, sl, cycles, returned, sz, synced>>

basic_run_bot_after_trade ==
  /\ pc = "b_ret"
  /\ IF cyc.order = "order"
     THEN /\ in_position' = TRUE
          /\ position_type' = IF cyc.signal = "BUY" THEN "LONG" ELSE "SHORT"
          /\ position_amount' = cyc.amount
          /\ UNCHANGED entry_price
     ELSE UNCHANGED controller
  /\ returned' = returned \cup {<<TradeKind(cyc), cyc.order>>}
  /\ pc' = "b_wait"
  /\ UNCHANGED <<exchange, cyc, retry, sl, cycles, sz, synced>>

\* execute_trade("CLOSE"): cancels stop orders and returns None
basic_execute_trade_close ==
  /\ pc = "b_cancel"
  /\ \E k \in 0..Len(exStops) :
       exStops' = SubSeq(exStops, k + 1, Len(exStops))
  /\ pc' = "b_close"
  /\ UNCHANGED <<controller, exPos, exEntry, cyc, retry, sl, cycles, returned, sz, synced>>

\* run_bot's own closing market order
basic_run_bot_close ==
  /\ pc = "b_close"
  /\ \E ok \in BOOLEAN :
       LET f == Fill(exPos, exEntry, IF position_type = "SHORT" THEN "buy" ELSE "sell",
                     position_amount, cyc.price)
       IN  IF ok
           THEN /\ exPos' = f.pos
                /\ exEntry' = f.entry
                /\ in_position' = FALSE
                /\ position_type' = "None"
                /\ position_amount' = 0
                /\ cyc' = [cyc EXCEPT !.closed = "True"]
           ELSE /\ cyc' = [cyc EXCEPT !.closed = "False"]
                /\ UNCHANGED <<exPos, exEntry, in_position, position_type, position_amount>>
  /\ pc' = "b_wait"
  /\ UNCHANGED <<entry_price, exStops, retry, sl, cycles, returned, sz, synced>>

NextBasic ==
  \/ basic_run_bot_fetch
  \/ basic_run_bot_decide
  \/ basic_execute_trade_entry
  \/ basic_execute_trade_stop
  \/ basic_execute_trade_emergency
  \/ basic_run_bot_after_trade
  \/ basic_execute_trade_close
  \/ basic_run_bot_close
  \/ StopTriggered

SpecBasic == InitBasic /\ [][NextBasic]_vars


\* ------------------------------------------------------------------------
\* SpecLossy: one transition of the production bot on a network that can
\* lose the response of an accepted order
\* ------------------------------------------------------------------------
\* what one submission can end in when the response can be lost: as in
\* Outcomes, or the exchange accepts the order and the client's call
\* raises (timeout, connection reset)
LossyOutcomes == Outcomes \cup {"lost"}

\* what the client sees of an outcome: a lost response is an exception
Seen(o) == IF o = "lost" THEN "transient" ELSE o

\* whether the exchange took the order
Accepted(o) == o \in {"ok", "lost"}

LossyAmounts == 1..MainMarket.max
LossyPrices == {50, 100}

\* the state at the call of execute_trade (controller flat, quantity
\* sized) or at the closing order of close_position (position open, its
\* stop orders cancelled)
InitLossy ==
  /\ cycles = 1
  /\ returned = {}
  /\ sz = NoSizing
  /\ synced = TRUE
  /\ sl = NoCall
  /\ exStops = << >>
  /\ \/ \E d \in {"BUY", "SELL"}, a \in LossyAmounts, p \in LossyPrices :
          /\ pc = "l_entry"
          /\ a * p >= MainMarket.minCost
          /\ in_position = FALSE /\ position_type = "None"
          /\ position_amount = 0 /\ entry_price = 0
          /\ exPos = 0 /\ exEntry = 0
          /\ cyc = [NoCycle EXCEPT !.kind = "open", !.signal = d, !.amount = a,
                                   !.price = p, !.bars = Z_SCORE_WINDOW]
          /\ retry = NewCall("entry", EntrySide(d), a)
     \/ \E t \in {"LONG", "SHORT"}, a \in LossyAmounts, p \in LossyPrices :
          /\ pc = "l_close"
          /\ in_position = TRUE /\ position_type = t
          /\ position_amount = a /\ entry_price = p
          /\ exPos = (IF t = "LONG" THEN a ELSE 0 - a) /\ exEntry = p
          /\ cyc = [NoCycle EXCEPT !.kind = "close", !.price = p, !.cancel = "done",
                                   !.before = <<TRUE, t, a, p>>, !.bars = Z_SCORE_WINDOW]
          /\ retry = NewCall("close", IF t = "LONG" THEN "sell" ELSE "buy", a)

\* the market entry order, one submission
lossy_execute_trade_entry ==
  /\ pc = "l_entry"
  /\ \E o \in LossyOutcomes :
       LET r == execute_order_with_retry(retry, Seen(o))
           f == Fill(exPos, exEntry, retry.side, retry.amount, cyc.price)
       IN  /\ retry' = r
           /\ IF Accepted(o) THEN exPos' = f.pos /\ exEntry' = f.entry
              ELSE UNCHANGED <<exPos, exEntry>>
           /\ CASE r.result = "ok" ->
                     /\ cyc' = [cyc EXCEPT !.ops = @ \cup {"entry"}, !.entryOk = TRUE]
                     /\ sl' = NewCall("stop", StopSide(cyc.signal), cyc.amount)
                     /\ pc' = "l_stop"
                [] r.result = "None" ->
                     /\ cyc' = [cyc EXCEPT !.ops = @ \cup {"entry"}, !.order = "None"]
                     /\ pc' = "l_done"
                     /\ UNCHANGED sl
                [] OTHER ->
                     /\ cyc' = [cyc EXCEPT !.ops = @ \cup {"entry"}]
                     /\ UNCHANGED <<sl, pc>>
  /\ UNCHANGED <<controller, exStops, cycles, returned, sz, synced>>

\* set_stop_loss_with_safety: one submission of the STOP_MARKET order
lossy_set_stop_loss_with_safety_stop ==
  /\ pc = "l_stop"
  /\ \E o \in LossyOutcomes :
       LET r == stop_loss_attempt(sl, Seen(o))
           stop_price == stop_loss_price(cyc.signal, cyc.price, MainMarket.tick)
       IN  /\ sl' = r
           /\ exStops' = IF Accepted(o)
                         THEN Append(exStops, [side |-> sl.side, amount |-> sl.amount,
                                               stopPrice |-> stop_price])
                         ELSE exStops
           /\ CASE r.result = "ok" ->
                     /\ cyc' = [cyc EXCEPT !.ops = @ \cup {"stop"}, !.sl_success = TRUE,
                                            !.order = "order", !.stop_price = stop_price]
                     /\ pc' = "l_done"
                     /\ UNCHANGED retry
                [] r.result = "exhausted" ->
                     /\ retry' = NewCall("emergency", close_side(sl.side), sl.amount)
                     /\ cyc' = [cyc EXCEPT !.ops = @ \cup {"stop"}, !.emCalls = @ + 1]
                     /\ pc' = "l_emergency"
                [] OTHER ->
                     /\ cyc' = [cyc EXCEPT !.ops = @ \cup {"stop"}]
                     /\ UNCHANGED <<retry, pc>>
  /\ UNCHANGED <<controller, exPos, exEntry, cycles, returned, sz, synced>>

\* set_stop_loss_with_safety: the emergency close, one submission
lossy_set_stop_loss_with_safety_emergency ==
  /\ pc = "l_emergency"
  /\ \E o \in LossyOutcomes :
       LET r == execute_order_with_retry(retry, Seen(o))
           f == Fill(exPos, exEntry, retry.side, retry.amount, cyc.price)
       IN  /\ retry' = r
           /\ IF Accepted(o) THEN exPos' = f.pos /\ exEntry' = f.entry
              ELSE UNCHANGED <<exPos, exEntry>>
           /\ CASE r.result = "ok" ->
                     /\ cyc' = [cyc EXCEPT !.ops = @ \cup {"emergency"},
                                            !.emergency = "ok", !.order = "None"]
                     /\ pc' = "l_done"
                [] r.result = "None" ->
                     /\ cyc' = [cyc EXCEPT !.ops = @ \cup {"emergency"},
                                            !.emergency = "failed", !.order = "None"]
                     /\ pc' = "l_done"
                [] OTHER ->
                     /\ cyc' = [cyc EXCEPT !.ops = @ \cup {"emergency"}]
                     /\ UNCHANGED pc
  /\ UNCHANGED <<controller, exStops, sl, cycles, returned, sz, synced>>

\* close_position: the closing market order, one submission
lossy_close_position_order ==
  /\ pc = "l_close"
  /\ \E o \in LossyOutcomes :
       LET r == execute_order_with_retry(retry, Seen(o))
           f == Fill(exPos, exEntry, retry.side, retry.amount, cyc.price)
       IN  /\ retry' = r
           /\ IF Accepted(o) THEN exPos' = f.pos /\ exEntry' = f.entry
              ELSE UNCHANGED <<exPos, exEntry>>
           /\ CASE r.result = "ok" ->
                     /\ cyc' = [cyc EXCEPT !.ops = @ \cup {"close"}, !.closed = "True"]
                     /\ pc' = "l_done"
                [] r.result = "None" ->
                     /\ cyc' = [cyc EXCEPT !.ops = @ \cup {"close"}, !.closed = "False"]
                     /\ pc' = "l_done"
                [] OTHER ->
                     /\ cyc' = [cyc EXCEPT !.ops = @ \cup {"close"}]
                     /\ UNCHANGED pc
  /\ UNCHANGED <<controller, exStops, sl, cycles, returned, sz, synced>>

NextLossy ==
  \/ lossy_execute_trade_entry
  \/ lossy_set_stop_loss_with_safety_stop
  \/ lossy_set_stop_loss_with_safety_emergency
  \/ lossy_close_position_order

SpecLossy == InitLossy /\ [][NextLossy]_vars

\* ========================================================================
\* Properties
\* ========================================================================
ClosingStopExists ==
  \E i \in 1..Len(exStops) :
    exStops[i].side = (IF exPos > 0 THEN "sell" ELSE "buy")

\* C1: whenever the exchange holds a position, a protective stop order
\* for it (a stop on the closing side) is open on the exchange.
PositionAlwaysProtected == exPos # 0 => ClosingStopExists

\* C2: every submission of the opening market order happens while the
\* exchange holds no position.
NoEntryWhilePositionOpen == [][execute_trade_entry => exPos = 0]_vars

\* C3: when execute_trade returns after the stop loop was exhausted, one
\* emergency close was called, on the side opposite to the entry and for
\* the entry's amount; when it succeeded the exchange is flat and the
\* controller stays flat.
EmergencyCloseFlattens ==
  /\ (pc = "ret_trade" /\ cyc.entryOk /\ ~cyc.sl_success) =>
       /\ sl.result = "exhausted"
       /\ sl.calls = MAX_RETRIES
       /\ cyc.emCalls = 1
       /\ retry.op = "emergency"
       /\ retry.side = Opposite(EntrySide(cyc.signal))
       /\ retry.amount = cyc.amount
       /\ (cyc.emergency = "ok" => exPos = 0 /\ ~in_position)
  /\ (pc = "wait" /\ cyc.kind = "open" /\ cyc.emergency = "ok") => ~in_position

\* C4: the value execute_trade returns after a critical failure (stop and
\* emergency close both failed) is never a value it returns after an
\* emergency close that flattened the position.
CriticalDistinguishable ==
  \A a, b \in returned :
    (a[1] = "critical" /\ b[1] = "emergency_ok") => a[2] # b[2]

\* C5: the controller is in a position after an opening cycle only if the
\* entry was accepted and the stop was placed; after a stop failure with a
\* successful emergency close execute_trade returns None, the controller
\* is flat and the exchange is flat.
OpenOnlyWhenProtected ==
  /\ (pc = "wait" /\ cyc.kind = "open" /\ in_position) =>
       (cyc.entryOk /\ cyc.sl_success /\ cyc.order = "order")
  /\ (pc = "ret_trade" /\ cyc.emergency = "ok") =>
       (cyc.order = "None" /\ exPos = 0)
  /\ (pc = "wait" /\ cyc.kind = "open" /\ cyc.emergency = "ok") =>
       (~in_position /\ position_type = "None")

\* C6 (SpecBasic): execute_trade returns the order, and run_bot sets
\* in_position, only if the entry filled and the stop was set or the
\* emergency close succeeded.
BasicSuccessOnlyWhenSafe ==
  /\ (pc = "b_ret" /\ cyc.order = "order") =>
       (cyc.entryOk /\ (cyc.sl_success \/ cyc.emergency = "ok"))
  /\ (pc = "b_wait" /\ cyc.kind = "open" /\ in_position) =>
       (cyc.entryOk /\ (cyc.sl_success \/ cyc.emergency = "ok"))

\* C7: a call of execute_order_with_retry that returned an order after k
\* failures made k+1 calls, k < MAX_RETRIES, and slept k times, the i-th
\* sleep (from 0) for RETRY_DELAY * 2^i seconds, each longer than the one
\* before.
RetrySucceedsAfterKFailures ==
  retry.result = "ok" =>
    /\ retry.fails < MAX_RETRIES
    /\ retry.calls = retry.fails + 1
    /\ Len(retry.waits) = retry.fails
    /\ \A i \in 1..Len(retry.waits) : retry.waits[i] = RETRY_DELAY * (2 ^ (i - 1))
    /\ \A i, j \in 1..Len(retry.waits) : i < j => retry.waits[i] < retry.waits[j]

RetrySucceededAfterTwoFailures ==
  retry.result = "ok" /\ retry.fails = MAX_RETRIES - 1 /\ Len(retry.waits) = 2

\* C8: a call of execute_order_with_retry whose every attempt failed made
\* MAX_RETRIES calls, slept MAX_RETRIES - 1 times (not after the last
\* failure) and returned None; a call ends in a value, an order or None.
RetryExhaustedReturnsNone ==
  /\ retry.result \in {"running", "ok", "None"}
  /\ retry.result = "running" => retry.calls < MAX_RETRIES
  /\ retry.fails >= MAX_RETRIES => retry.result = "None"
  /\ retry.result = "None" =>
       /\ retry.calls = MAX_RETRIES
       /\ retry.fails = MAX_RETRIES
       /\ Len(retry.waits) = MAX_RETRIES - 1

RetryExhausted ==
  retry.result = "None" /\ retry.fails = MAX_RETRIES /\ retry.op = "entry"

\* C9: after a rejection (a non-transient failure) neither retry loop
\* submits the order again, and None is returned only for failures that
\* were all transient.
RejectionNotRetried ==
  /\ retry.lastErr = "rejected" => retry.result # "running"
  /\ sl.lastErr = "rejected" => sl.result # "running"
  /\ retry.result = "None" => retry.lastErr = "transient"

\* C10 (SpecSizing): the quantity before rounding is (B*R/S)/P, which is 5
\* for B = 1000, P = 100; a non-zero result is a multiple of the lot step
\* and at most that quantity.
SizingRoundedDown ==
  (sz.done /\ sz.bal.ok /\ sz.bal.free > 0) =>
    LET raw == RawQuantity(sz.bal.free, sz.price)
    IN  /\ RatEq(raw, Rat(sz.bal.free * RISK_PER_TRADE, STOP_LOSS_PCT * sz.price))
        /\ (sz.bal.free = 1000 /\ sz.price = 100) => RatEq(raw, Rat(5, 1))
        /\ sz.amount # 0 =>
             /\ sz.amount % sz.market.step = 0
             /\ RatLeqInt(sz.amount, raw)

\* the conditions under which a quantity is rejected: no free balance, a
\* rounded quantity below the minimum, a notional below the minimum
SizingRejects(balance, current_price, m) ==
  \/ balance <= 0
  \/ LET q == amount_to_precision(RawQuantity(balance, current_price), m.step)
         clamped == IF m.max # 0 /\ q > m.max THEN m.max ELSE q
     IN  q < m.min \/ clamped * current_price < m.minCost

\* C11: in an opening cycle whose balance and price meet a rejection
\* condition, calculate_position_size returned 0, no order of any kind was
\* submitted in the cycle, the cycle is over and the controller is flat.
RejectedSizingSubmitsNothing ==
  (cyc.kind = "open" /\ SizingRejects(cyc.balance, cyc.price, MainMarket)) =>
    /\ cyc.amount = 0
    /\ cyc.ops = {}
    /\ retry = NoCall /\ sl = NoCall
    /\ pc = "wait"
    /\ ~in_position /\ position_type = "None"
    /\ controller = cyc.before

RejectedBelowMinNotional ==
  /\ pc = "wait" /\ cyc.kind = "open" /\ cyc.amount = 0
  /\ cyc.balance = 150 /\ cyc.price = 50
  /\ amount_to_precision(RawQuantity(150, 50), MainMarket.step) >= MainMarket.min

\* the kind of outcome a call of calculate_position_size has, from its
\* inputs: a failure to fetch the balance or the market, a rejection, or
\* a quantity
SizingOutcome(i) ==
  IF ~i.bal.ok THEN "failure"
  ELSE IF SizingRejects(i.bal.free, i.price, i.market) THEN "rejection"
  ELSE "sized"

\* C12 (SpecSizing): the value returned by a call that ended in a sizing
\* rejection is never the value returned by a call that ended in a
\* transport failure, and the other way round.
RejectionDistinctFromFailure ==
  sz.done =>
    \A i \in SizingInputs :
      {SizingOutcome(sz), SizingOutcome(i)} = {"failure", "rejection"} =>
        LET r == calculate_position_size(i.bal, i.price, i.market)
        IN  <<sz.amount, sz.balance>> # <<r.amount, r.balance>>

\* C13: the decision of a cycle is the classification of its z-score.
\* Flat: a SHORT opening is attempted iff z > ENTRY_THRESHOLD, a LONG
\* opening iff z < -ENTRY_THRESHOLD, otherwise nothing is submitted.
\* SHORT: the close is attempted iff z < EXIT_THRESHOLD.  LONG: iff
\* z > -EXIT_THRESHOLD.  Entry orders are submitted only in opening
\* cycles, on the side of the signal, closing orders only in closing
\* cycles; so after samples not above the threshold the SHORT opening comes
\* with the first sample above it.
DecisionFollowsSignal ==
  /\ cyc.kind \in {"hold", "open", "close"} =>
       /\ ~cyc.before[1] =>
            /\ (cyc.kind = "open" /\ cyc.signal = "SELL") <=> Gt(cyc.z, ENTRY_THRESHOLD)
            /\ (cyc.kind = "open" /\ cyc.signal = "BUY") <=> Lt(cyc.z, 0 - ENTRY_THRESHOLD)
            /\ cyc.kind # "close"
       /\ (cyc.before[1] /\ cyc.before[2] = "SHORT") =>
            /\ cyc.kind = "close" <=> Lt(cyc.z, EXIT_THRESHOLD)
            /\ cyc.kind # "open"
       /\ (cyc.before[1] /\ cyc.before[2] = "LONG") =>
            /\ cyc.kind = "close" <=> Gt(cyc.z, 0 - EXIT_THRESHOLD)
            /\ cyc.kind # "open"
  /\ cyc.ops # {} => cyc.kind \in {"open", "close"}
  /\ cyc.kind = "open" => "close" \notin cyc.ops
  /\ cyc.kind = "close" => cyc.ops \subseteq {"close"}
  /\ pc = "entry" =>
       /\ cyc.kind = "open" /\ retry.op = "entry"
       /\ retry.side = (IF Gt(cyc.z, ENTRY_THRESHOLD) THEN "sell" ELSE "buy")

\* a flat controller saw a z-score of about 1.5, then one of about 2.3,
\* and submitted the SHORT entry in the second cycle
ShortOpenedAtFirstSampleAbove ==
  /\ cyc.quiet = 1 /\ cycles = 2
  /\ cyc.kind = "open" /\ cyc.signal = "SELL" /\ "entry" \in cyc.ops
  /\ Gt(cyc.z, ENTRY_THRESHOLD)

\* C14: a cycle whose frame has fewer than Z_SCORE_WINDOW closes has no
\* z-score and yields no signal: no order is submitted, whether the
\* controller is flat, LONG or SHORT, and the controller's record is what
\* it was when the cycle began.
ShortSeriesNoSignal ==
  (cycles > 0 /\ cyc.bars < Z_SCORE_WINDOW) =>
    /\ ~cyc.z.defined
    /\ cyc.kind \in {"none", "hold", "error", "nodata"}
    /\ cyc.ops = {}
    /\ retry = NoCall /\ sl = NoCall
    /\ pc \in {"decide", "wait"}
    /\ controller = cyc.before

ShortSeriesHeldFlat ==
  /\ pc = "wait" /\ cyc.kind = "hold" /\ cyc.bars = 10 /\ cyc.price = 100
  /\ ~in_position

\* C15: a cycle whose closes over the trailing window are all equal (a
\* std of 0) has no z-score and yields no signal, at any price and in any
\* position: no order, no change of the controller's record, no error.
ZeroStdNoSignal ==
  (cyc.bars >= Z_SCORE_WINDOW /\ cyc.z.var = 0) =>
    /\ ~cyc.z.defined
    /\ cyc.kind \in {"none", "hold"}
    /\ cyc.ops = {}
    /\ retry = NoCall /\ sl = NoCall
    /\ pc \in {"decide", "wait"}
    /\ controller = cyc.before

ZeroStdHeldLong ==
  /\ pc = "wait" /\ cyc.kind = "hold" /\ cyc.bars > Z_SCORE_WINDOW /\ cyc.z.var = 0
  /\ in_position /\ position_type = "LONG"

\* C16: at startup the controller takes the exchange's position: when the
\* exchange reports a position, LONG or SHORT by its sign, its absolute
\* size and its entry price; and it starts flat only if the exchange
\* reported that there is no position.
StartsInExchangeState ==
  [][fetch_current_position =>
       /\ (synced' /\ exPos # 0) =>
            /\ in_position'
            /\ position_type' = (IF exPos > 0 THEN "LONG" ELSE "SHORT")
            /\ position_amount' = Abs(exPos)
            /\ entry_price' = exEntry
       /\ ~in_position' => (synced' /\ exPos = 0)]_vars

\* C17: the controller does not start from an assumed state: no cycle
\* runs, and no opening order is submitted, before the exchange position
\* has been read successfully.
StartupNeverAssumed ==
  /\ cycles > 0 => synced
  /\ "entry" \in cyc.ops => synced

\* C18: in a cycle that began in a position adopted at startup (no
\* opening has returned yet) no opening order is submitted; when its
\* z-score meets the exit condition the closing order is submitted, on the
\* side opposite to the position and for the adopted quantity, which is
\* what the exchange held; and when the close succeeded the controller is
\* flat and the closing order is the only order of the cycle.
AdoptedPositionClosedOnExit ==
  (cyc.before[1] /\ returned = {}) =>
    /\ \E p \in StartPositions :
         /\ p.pos # 0
         /\ cyc.before = <<TRUE, IF p.pos > 0 THEN "LONG" ELSE "SHORT", Abs(p.pos), p.entry>>
    /\ cyc.kind # "open" /\ "entry" \notin cyc.ops
    /\ cyc.kind \in {"hold", "close"} =>
         (cyc.kind = "close" <=>
            IF cyc.before[2] = "SHORT" THEN Lt(cyc.z, EXIT_THRESHOLD)
            ELSE Gt(cyc.z, 0 - EXIT_THRESHOLD))
    /\ pc \in {"close", "ret_close"} =>
         /\ retry.op = "close"
         /\ retry.side = (IF cyc.before[2] = "LONG" THEN "sell" ELSE "buy")
         /\ retry.amount = cyc.before[3]
    /\ (cyc.kind = "close" /\ pc \in {"ret_close", "wait"}) => cyc.ops = {"close"}
    /\ (cyc.closed = "True" /\ pc = "wait") =>
         (~in_position /\ position_type = "None" /\ position_amount = 0)

AdoptedShortClosed ==
  /\ pc = "wait" /\ cyc.closed = "True" /\ returned = {}
  /\ cyc.before = <<TRUE, "SHORT", 4, 50>>
  /\ ~in_position /\ exPos = 0

\* a cycle that did not complete a transition: no frame, an exception, a
\* sizing failure or rejection, execute_trade returning None (entry
\* failure, stop failure with emergency close), close_position returning
\* False
CycleFailed(c) ==
  \/ c.kind \in {"nodata", "error"}
  \/ c.kind = "open" /\ c.order # "order"
  \/ c.kind = "close" /\ c.closed # "True"

\* C19: a failure during a transition attempt leaves the controller's
\* record (in_position, position_type, position_amount, entry_price) as
\* it was when the cycle began: it is unchanged while the cycle runs, and
\* after a cycle that failed.
FailedTransitionKeepsState ==
  /\ (cycles > 0 /\ pc # "wait") => controller = cyc.before
  /\ (pc = "wait" /\ CycleFailed(cyc)) => controller = cyc.before

CriticalFailureKeptFlat ==
  /\ pc = "wait" /\ cyc.kind = "open" /\ cyc.emergency = "failed"
  /\ exPos # 0
  /\ controller = cyc.before /\ ~in_position

\* C20: after a successful open the quantity and the entry price the
\* controller records are the filled quantity and the fill price of the
\* entry order's result, and the stop price is the one derived from the
\* recorded entry price.
OpenRecordsFill ==
  (pc = "wait" /\ cyc.kind = "open" /\ cyc.order = "order") =>
    /\ in_position
    /\ position_amount = cyc.fill.filled
    /\ entry_price = cyc.fill.average
    /\ cyc.stop_price = stop_loss_price(cyc.signal, entry_price, MainMarket.tick)

\* C21: close_position goes through the cancellation of the stop orders
\* before it submits the closing order; whatever the listing and the
\* cancellations did, the closing order is then submitted, through the
\* retry loop, on the side opposite to the position and for the
\* controller's recorded quantity.
CancelThenClose ==
  /\ [][close_position_cancel =>
          /\ pc' = "close"
          /\ retry' = NewCall("close", IF position_type = "LONG" THEN "sell" ELSE "buy",
                              position_amount)]_vars
  /\ []("close" \in cyc.ops => cyc.cancel # "unset")
  /\ []((cyc.kind = "close" /\ pc \in {"ret_close", "wait"}) =>
          /\ cyc.cancel # "unset"
          /\ "close" \in cyc.ops
          /\ cyc.closed \in {"True", "False"})

ClosedAfterCancelFailed ==
  /\ pc = "ret_close" /\ cyc.closed = "True"
  /\ cyc.cancel \in {"list_failed", "cancel_failed"} /\ cyc.cancelled = 0
  /\ Len(exStops) > 0
  /\ retry.op = "close" /\ retry.calls >= 1

\* C22: after a critical fail-safe failure (stop and emergency close both
\* failed) the controller's record agrees with the exchange position
\* again before a further opening order is submitted: an entry order is
\* submitted by a flat controller only while the exchange is flat.
ReconciledBeforeReopening ==
  (synced /\ <<"critical", "None">> \in returned /\ pc = "entry") =>
    (~in_position /\ exPos = 0)

\* the places of a transition in progress: inside execute_trade or
\* close_position, or between their return and run_bot's use of the result
InTransition == {"entry", "stop", "emergency", "ret_trade", "cancel", "close", "ret_close"}

\* C23 (SpecInterrupt): the process ends on a KeyboardInterrupt only
\* between cycles: not with a transition in progress, and in particular
\* not with the entry filled and neither the stop placed nor the emergency
\* close completed.
InterruptOnlyBetweenCycles ==
  pc = "exit" =>
    /\ cyc.interrupted \notin InTransition
    /\ ~(cyc.entryOk /\ ~cyc.sl_success /\ cyc.emergency = "none")

\* C24: what the notification sink does never changes a trading decision.
\* The value execute_trade returns is determined by the entry and the stop,
\* the value close_position returns by the closing order, the value
\* calculate_position_size returns by the balance, the price and the
\* limits, and the controller's record after the cycle by those values,
\* whatever the notification's HTTP call did.
NotifierNeverDecides ==
  /\ pc = "ret_trade" =>
       cyc.order = (IF cyc.entryOk /\ cyc.sl_success THEN "order" ELSE "None")
  /\ pc = "ret_close" =>
       cyc.closed = (IF retry.result = "ok" THEN "True" ELSE "False")
  /\ cyc.kind = "open" =>
       LET size == calculate_position_size(cyc.bal, cyc.price, MainMarket)
       IN  cyc.amount = size.amount /\ cyc.balance = size.balance
  /\ (pc = "wait" /\ cyc.kind = "open") =>
       (in_position <=> (cyc.entryOk /\ cyc.sl_success))
  /\ (pc = "wait" /\ cyc.kind = "close") =>
       (in_position <=> cyc.closed = "False")

OpenedWhileNotifierRaised ==
  /\ pc = "wait" /\ cyc.kind = "open" /\ cyc.line = "raised"
  /\ cyc.order = "order" /\ in_position

\* C25 (SpecInterrupt): only the shutdown signal ends the main loop. The
\* loop is left only by the step that handles the KeyboardInterrupt, and
\* after a cycle that failed (no data, an exception, a rejected or failed
\* sizing, execute_trade returning None, close_position returning False)
\* run_bot is back at the head of the loop, where the next cycle can begin.
OnlyInterruptTerminates ==
  /\ pc = "exit" => cyc.interrupted # "no"
  /\ (cycles > 0 /\ cyc.interrupted = "no" /\ CycleFailed(cyc)) =>
       pc \in {"wait", "decide", "entry", "stop", "emergency", "ret_trade",
               "cancel", "close", "ret_close"}
  /\ (pc = "wait" /\ cycles < MaxCycles) => ENABLED run_bot_fetch

NextCycleAfterCriticalFailure ==
  /\ <<"critical", "None">> \in returned
  /\ cycles = MaxCycles /\ pc = "decide" /\ cyc.interrupted = "no"

\* C26 (SpecSizing): the quantity of every order passes the exchange
\* filters.  Every order of a transition (entry, stop, emergency close,
\* close) carries the quantity calculate_position_size returned, so the
\* statement is about that quantity: a multiple of the lot step, at least
\* the minimum, at most the maximum where there is one, and with a notional
\* (at the price of the sizing) of at least the minimum cost.
OrderQuantityPassesFilters ==
  (sz.done /\ sz.amount # 0) =>
    /\ sz.amount % sz.market.step = 0
    /\ sz.amount >= sz.market.min
    /\ (sz.market.max # 0 => sz.amount <= sz.market.max)
    /\ sz.amount * sz.price >= sz.market.minCost

\* C27: the protective stop placed after an entry is on the side opposite
\* to the entry (sell for LONG, buy for SHORT), has the quantity of the
\* entry order, and its stop price is the entry price the controller
\* records (the price execute_trade was given) times 1 - STOP_LOSS_PCT for
\* LONG, 1 + STOP_LOSS_PCT for SHORT, rounded to the nearest price tick; a
\* LONG opened at 100 has its stop at 98.
StopMatchesEntry ==
  (pc = "ret_trade" /\ cyc.sl_success) =>
    /\ Len(exStops) > 0
    /\ LET stop == exStops[Len(exStops)]
           factor == IF cyc.signal = "BUY" THEN 10000 - STOP_LOSS_PCT
                     ELSE 10000 + STOP_LOSS_PCT
       IN  /\ stop.side = Opposite(EntrySide(cyc.signal))
           /\ stop.side = (IF cyc.signal = "BUY" THEN "sell" ELSE "buy")
           /\ stop.amount = cyc.amount
           /\ stop.stopPrice = cyc.stop_price
           /\ stop.stopPrice % MainMarket.tick = 0
           /\ 2 * Abs(stop.stopPrice * 10000 - cyc.price * factor) <= 10000 * MainMarket.tick
           /\ (cyc.signal = "BUY" /\ cyc.price = 100) => stop.stopPrice = 98

LongStopRoundedToTick ==
  /\ pc = "ret_trade" /\ cyc.sl_success /\ cyc.signal = "BUY"
  /\ cyc.price = 60 /\ cyc.stop_price = 59
  /\ Len(exStops) > 0 /\ exStops[Len(exStops)].side = "sell"

\* the steps a cycle has left at most: the stage of the cycle, and within
\* a retry loop the submissions it may still make
CycleRank ==
  LET stage == CASE pc = "decide" -> 6
                 [] pc \in {"entry", "cancel"} -> 5
                 [] pc \in {"stop", "close"} -> 4
                 [] pc = "emergency" -> 3
                 [] pc \in {"ret_trade", "ret_close"} -> 1
                 [] OTHER -> 0
      calls == CASE pc = "stop" -> sl.calls
                 [] pc \in {"entry", "emergency", "close"} -> retry.calls
                 [] OTHER -> 0
  IN  stage * (MAX_RETRIES + 1) + (MAX_RETRIES - calls)

\* C28: every cycle terminates whatever the exchange does.  No retried call
\* submits its order more than MAX_RETRIES times (entry, stop, emergency
\* close, close), the emergency close is called at most once in a cycle,
\* the sleeps inside one call add up to at most
\* MAX_RETRIES * RETRY_DELAY * 2^MAX_RETRIES, and every step of the program
\* inside a cycle brings the cycle nearer to its end.
CycleTerminates ==
  /\ [](/\ retry.calls <= MAX_RETRIES
        /\ sl.calls <= MAX_RETRIES
        /\ cyc.emCalls <= 1
        /\ Sum(retry.waits, 1) <= MAX_RETRIES * RETRY_DELAY * (2 ^ MAX_RETRIES)
        /\ Sum(sl.waits, 1) <= MAX_RETRIES * RETRY_DELAY * (2 ^ MAX_RETRIES)
        /\ CycleRank >= 0)
  /\ [][(pc \in InTransition \cup {"decide"}) =>
          \/ StopTriggered
          \/ CycleRank' < CycleRank /\ CycleRank' >= 0]_vars

AllSubmissionsUsed ==
  /\ pc = "ret_trade" /\ cyc.emergency = "failed"
  /\ sl.calls = MAX_RETRIES /\ retry.op = "emergency" /\ retry.calls = MAX_RETRIES
  /\ Sum(sl.waits, 1) = RETRY_DELAY * ((2 ^ (MAX_RETRIES - 1)) - 1)

\* C29: when close_position returns False, the stop orders open on the
\* exchange are those that were open before the call: close_position has
\* cancelled none of them.
FailedCloseKeepsStops ==
  (pc = "ret_close" /\ cyc.closed = "False") => cyc.cancelled = 0

\* C30: when close_position returns True no stop order is left open on
\* the exchange, also when the listing or a cancellation had raised.
ClosedLeavesNoStop ==
  (pc = "ret_close" /\ cyc.closed = "True") => Len(exStops) = 0

\* C31: a closing order never creates exposure.  Whenever close_position
\* is about to submit its market order, the exchange holds a position of
\* the recorded side with the quantity of the order, also when a stop
\* order was triggered since the position was opened; and when
\* close_position returned True the exchange holds no position.
CloseNeverCreatesExposure ==
  /\ pc = "close" => exPos = 0 - Signed(retry.side, retry.amount)
  /\ (pc = "ret_close" /\ cyc.closed = "True") => exPos = 0

\* C32 (SpecLossy): one call of a retried order has at most one order
\* accepted by the exchange, also when a response is lost.  The position
\* an entry call opened has the sized quantity, at most one stop order is
\* placed, and after the call of a close the exchange has traded the
\* position's quantity at most once.
OneCallOneOrder ==
  /\ pc \in {"l_entry", "l_stop"} => Abs(exPos) <= cyc.amount
  /\ pc = "l_stop" => exPos = Signed(EntrySide(cyc.signal), cyc.amount)
  /\ Len(exStops) <= 1
  /\ cyc.kind = "close" =>
       exPos \in {0, IF position_type = "LONG" THEN position_amount
                     ELSE 0 - position_amount}

\* C33: the controller never moves directly between LONG and SHORT.  In a
\* cycle its record changes at most once, at the end of the cycle, and one
\* of the two records is FLAT; a cycle that began in a position submits no
\* opening order and no stop order, whatever the z-score; a cycle that
\* closes submits nothing but the closing order; a cycle that opens
\* submits no closing order.
OneTransitionPerCycle ==
  cycles > 0 =>
    /\ controller # cyc.before =>
         /\ pc = "wait"
         /\ cyc.before[2] = "None" \/ position_type = "None"
         /\ cyc.before[1] # in_position
    /\ cyc.before[1] => cyc.ops \cap {"entry", "stop", "emergency"} = {}
    /\ cyc.kind = "close" => (cyc.before[1] /\ cyc.ops \subseteq {"close"})
    /\ cyc.kind = "open" => (~cyc.before[1] /\ "close" \notin cyc.ops)

LongClosedAtEntryLevel ==
  /\ pc = "wait" /\ cyc.kind = "close" /\ cyc.closed = "True"
  /\ cyc.before[2] = "LONG" /\ Gt(cyc.z, ENTRY_THRESHOLD)
  /\ ~in_position /\ position_type = "None" /\ cyc.ops = {"close"}

\* C34: the controller's record is consistent at the start of every cycle
\* (and at every other point): in_position is true iff position_type is
\* LONG or SHORT iff position_amount > 0, and false iff position_type is
\* None and position_amount is 0; after the startup read, after an open
\* and after a close, successful or failed.
RecordConsistent ==
  /\ position_type \in {"None", "LONG", "SHORT"}
  /\ in_position <=> position_type \in {"LONG", "SHORT"}
  /\ in_position <=> position_amount > 0
  /\ ~in_position <=> (position_type = "None" /\ position_amount = 0)

ClosedWhatTheBotOpened ==
  /\ pc = "wait" /\ cycles = MaxCycles
  /\ <<"opened", "order">> \in returned
  /\ cyc.kind = "close" /\ cyc.closed = "True" /\ cyc.before[1]
  /\ ~in_position /\ position_type = "None" /\ position_amount = 0

====
